---- MODULE Spec2Model ----
(***************************************************************************)
(* SmarticleTracking: the per-tag TrackingObject (pose, timestamp, bounded *)
(* history, retroactive smoothing of missed frames) and the Tracking class *)
(* that steps a list of them from per-frame AprilTag detections.           *)
(*                                                                         *)
(* numpy arrays are mutable objects that history entries refer to, so an   *)
(* object's arrays live in a per-object heap (a sequence of poses) and     *)
(* self.x and the entries of self.history are references (indices) into it.*)
(* Real numbers are exact rationals; angles are counted in units of pi/4.  *)
(***************************************************************************)
EXTENDS Integers, Sequences, FiniteSets, TLC

\* ------------------------------------------------------------------ bounds
MaxCalls == 4        \* calls made on one TrackingObject in a run
MaxCap == 2          \* largest configured history_length
MaxAcqFrames == 4    \* frames captured while a Tracking acquires its tags
MaxSteps == 2        \* step() calls made on a Tracking

\* --------------------------------------------------------------- constants
Pi == 4              \* pi, in angle units of pi/4
TwoPi == 2 * Pi
NoLen == -1          \* history_length=None / tag_length=None

\* --------------------------------------------------------------- rationals
RECURSIVE GCD(_, _)
GCD(a, b) == IF b = 0 THEN a ELSE GCD(b, a % b)

Abs(a) == IF a < 0 THEN -a ELSE a

RNorm(n, d) ==
    LET s == IF d < 0 THEN -1 ELSE 1
        g == GCD(Abs(n), Abs(d))
    IN  [n |-> (s * n) \div g, d |-> (s * d) \div g]

R(i) == [n |-> i, d |-> 1]
RAdd(a, b) == RNorm(a.n * b.d + b.n * a.d, a.d * b.d)
RSub(a, b) == RNorm(a.n * b.d - b.n * a.d, a.d * b.d)
RMul(a, b) == RNorm(a.n * b.n, a.d * b.d)
RDiv(a, b) == RNorm(a.n * b.d, a.d * b.n)
RLeq(a, b) == a.n * b.d <= b.n * a.d
RLt(a, b) == a.n * b.d < b.n * a.d
RAbs(a) == [n |-> Abs(a.n), d |-> a.d]
\* np.mod(a, m) for an integer m > 0: a - m*floor(a/m), the sign of the divisor
RMod(a, m) == RNorm(a.n % (m * a.d), a.d)

\* component-wise arithmetic of the 3-element state arrays
VAdd(p, q) == [i \in 1..3 |-> RAdd(p[i], q[i])]
VSub(p, q) == [i \in 1..3 |-> RSub(p[i], q[i])]
VScale(p, c) == [i \in 1..3 |-> RMul(p[i], c)]
VDivS(p, c) == [i \in 1..3 |-> RDiv(p[i], c)]
Zeros3 == [i \in 1..3 |-> R(0)]

\* ------------------------------------------------------ detections (input)
None == [present |-> FALSE]

Rot90(v) == <<-v[2], v[1]>>
RECURSIVE RotN(_, _)
RotN(v, k) == IF k = 0 THEN v ELSE RotN(Rot90(v), k - 1)

\* detection of a square tag of half side s centred at c whose top edge
\* points in direction o*pi/2; corners in the order lb, rb, rt, lt
TagDet(id, c, s, o) ==
    LET k == (o + 3) % 4
        P(v) == LET w == RotN(v, k) IN <<R(c[1] + w[1]), R(c[2] + w[2])>>
    IN  [present |-> TRUE, id |-> id,
         center |-> <<R(c[1]), R(c[2])>>,
         corners |-> <<P(<<-s, -s>>), P(<<s, -s>>), P(<<s, s>>), P(<<-s, s>>)>>]

HalfSide == 1
DetA(id) == TagDet(id, <<0, 0>>, HalfSide, 0)
DetB(id) == TagDet(id, <<6, 3>>, 2 * HalfSide, 3)
Dets(id) == {DetA(id), DetB(id)}

\* detection of a square tag standing on a corner: the top edge points in
\* direction (2*o + 1)*pi/4; s is the half diagonal
TagDetDiag(id, c, s, o) ==
    LET k == (o + 3) % 4
        P(v) == LET w == RotN(v, k) IN <<R(c[1] + w[1]), R(c[2] + w[2])>>
    IN  [present |-> TRUE, id |-> id,
         center |-> <<R(c[1]), R(c[2])>>,
         corners |-> <<P(<<0, -s>>), P(<<s, 0>>), P(<<0, s>>), P(<<-s, 0>>)>>]

\* detection of a tag seen at an angle: a quadrilateral whose diagonals lie
\* along y = x and y = -x with half lengths a*sqrt(2) and b*sqrt(2)
SkewDet(id, a, b) ==
    [present |-> TRUE, id |-> id,
     center |-> <<R(0), R(0)>>,
     corners |-> <<<<R(-a), R(-a)>>, <<R(b), R(-b)>>, <<R(a), R(a)>>, <<R(-b), R(b)>>>>]

\* a tag at the origin in each of the eight headings k*pi/4
HeadingDets(id) ==
    {TagDet(id, <<0, 0>>, HalfSide, o) : o \in 0..3}
        \cup {TagDetDiag(id, <<0, 0>>, HalfSide, o) : o \in 0..3}

\* ---------------------------------------------------------- TrackingObject
\* np.arctan2(dy, dx) for the eight directions a lattice tag can point in,
\* in units of pi/4, result in (-pi, pi]
Atan2(dy, dx) ==
    LET sy == IF dy.n > 0 THEN 1 ELSE IF dy.n < 0 THEN -1 ELSE 0
        sx == IF dx.n > 0 THEN 1 ELSE IF dx.n < 0 THEN -1 ELSE 0
    IN  CASE sy = 0 /\ sx >= 0 -> 0
          [] sy = 0 /\ sx < 0 -> 4
          [] sy > 0 /\ sx > 0 -> 1
          [] sy > 0 /\ sx = 0 -> 2
          [] sy > 0 /\ sx < 0 -> 3
          [] sy < 0 /\ sx > 0 -> -1
          [] sy < 0 /\ sx = 0 -> -2
          [] sy < 0 /\ sx < 0 -> -3

\* TrackingObject.__init__
NewTrackingObject(ID, history_length, tag_length) ==
    [id |-> ID,
     tag_length |-> tag_length,
     maxlen |-> history_length,
     heap |-> <<Zeros3>>,          \* the arrays allocated so far
     x |-> 1,                      \* self.x = np.zeros(3)
     t |-> 0,
     history |-> <<>>,             \* references into heap
     t_history |-> <<>>,
     scale_factor |-> None,
     missed_frames |-> 0,
     object_detected |-> FALSE,
     err |-> "ok",                 \* outcome of the last call
     \* history of the run, kept beside the program's state
     h_src |-> <<>>,               \* per history entry: the call that appended it
     th_src |-> <<>>,              \* per t_history entry: the call that appended it
     h_log |-> <<>>,               \* every reference ever appended to history
     th_log |-> <<>>]              \* every timestamp ever appended to t_history

\* value of the array a reference points to
Val(o, ref) == o.heap[ref]
\* current state self.x as a value
X(o) == o.heap[o.x]
\* history as values
Hist(o) == [i \in 1..Len(o.history) |-> o.heap[o.history[i]]]

\* a bounded append that evicts at the wrong end: the newest entry goes
DequeAppend_EvictNewest(q, e, maxlen) ==
    IF maxlen = NoLen THEN Append(q, e)
    ELSE IF maxlen = 0 THEN <<>>
    ELSE IF Len(q) >= maxlen THEN Append(SubSeq(q, 1, Len(q) - 1), e)
    ELSE Append(q, e)

\* deque(maxlen=n).append
DequeAppend(q, e, maxlen) ==
    IF maxlen = NoLen THEN Append(q, e)
    ELSE IF maxlen = 0 THEN <<>>
    ELSE IF Len(q) >= maxlen THEN Append(Tail(q), e)
    ELSE Append(q, e)

\* a _get_state that returns the raw heading in [0, 2*pi) as theta
_get_state_NoCorrection(o, det, offset) ==
    LET center == det.center
        rt == det.corners[3]
        lt == det.corners[4]
        center_top == <<RDiv(RAdd(rt[1], lt[1]), R(2)), RDiv(RAdd(rt[2], lt[2]), R(2))>>
        theta == RMod(R(Atan2(RSub(center_top[2], center[2]), RSub(center_top[1], center[1]))), TwoPi)
    IN  [i \in 1..3 |-> CASE i = 1 -> RAdd(center[1], R(offset[1]))
                          [] i = 2 -> RAdd(center[2], R(offset[2]))
                          [] i = 3 -> theta]

\* a _get_state that wraps dtheta into (-pi, pi] instead of [-pi, pi)
_get_state_WrapUpper(o, det, offset) ==
    LET center == det.center
        rt == det.corners[3]
        lt == det.corners[4]
        center_top == <<RDiv(RAdd(rt[1], lt[1]), R(2)), RDiv(RAdd(rt[2], lt[2]), R(2))>>
        theta == RMod(R(Atan2(RSub(center_top[2], center[2]), RSub(center_top[1], center[1]))), TwoPi)
        dtheta0 == RSub(theta, X(o)[3])
        dtheta == RSub(R(Pi), RMod(RSub(R(Pi), dtheta0), TwoPi))
        new_theta == RAdd(X(o)[3], dtheta)
    IN  [i \in 1..3 |-> CASE i = 1 -> RAdd(center[1], R(offset[1]))
                          [] i = 2 -> RAdd(center[2], R(offset[2]))
                          [] i = 3 -> new_theta]

\* a _get_state that leaves the offset out
_get_state_NoOffset(o, det, offset) ==
    LET center == det.center
        rt == det.corners[3]
        lt == det.corners[4]
        center_top == <<RDiv(RAdd(rt[1], lt[1]), R(2)), RDiv(RAdd(rt[2], lt[2]), R(2))>>
        theta == RMod(R(Atan2(RSub(center_top[2], center[2]), RSub(center_top[1], center[1]))), TwoPi)
        dtheta0 == RSub(theta, X(o)[3])
        dtheta == RSub(RMod(RAdd(R(Pi), dtheta0), TwoPi), R(Pi))
        new_theta == RAdd(X(o)[3], dtheta)
    IN  [i \in 1..3 |-> CASE i = 1 -> center[1]
                          [] i = 2 -> center[2]
                          [] i = 3 -> new_theta]

\* TrackingObject._get_state
_get_state(o, det, offset) ==
    LET center == det.center
        rt == det.corners[3]
        lt == det.corners[4]
        center_top == <<RDiv(RAdd(rt[1], lt[1]), R(2)), RDiv(RAdd(rt[2], lt[2]), R(2))>>
        theta == RMod(R(Atan2(RSub(center_top[2], center[2]), RSub(center_top[1], center[1]))), TwoPi)
        dtheta0 == RSub(theta, X(o)[3])
        dtheta == RSub(RMod(RAdd(R(Pi), dtheta0), TwoPi), R(Pi))
        new_theta == RAdd(X(o)[3], dtheta)
    IN  [i \in 1..3 |-> CASE i = 1 -> RAdd(center[1], R(offset[1]))
                          [] i = 2 -> RAdd(center[2], R(offset[2]))
                          [] i = 3 -> new_theta]

\* |v| / sqrt(2) for a diagonal of a lattice square (|dx| = |dy|)
NormOverSqrt2(v) == RAbs(v[1])

\* what a call of _get_scale_factor yields when its assertion fails
AssertionFailed == [err |-> "AssertionError"]

\* a _get_scale_factor without the assertion: a missing length counts as 1
_get_scale_factor_Unchecked(o, det) ==
    LET bottom_left == det.corners[1]
        bottom_right == det.corners[2]
        top_right == det.corners[3]
        top_left == det.corners[4]
        d1 == <<RSub(bottom_left[1], top_right[1]), RSub(bottom_left[2], top_right[2])>>
        d2 == <<RSub(bottom_right[1], top_left[1]), RSub(bottom_right[2], top_left[2])>>
        diag_pixel == RDiv(RAdd(NormOverSqrt2(d1), NormOverSqrt2(d2)), R(2))
    IN  RDiv(diag_pixel, R(IF o.tag_length = NoLen THEN 1 ELSE o.tag_length))

\* a _get_scale_factor that measures one diagonal only
_get_scale_factor_OneDiagonal(o, det) ==
    IF o.tag_length = NoLen THEN AssertionFailed
    ELSE LET bottom_left == det.corners[1]
             top_right == det.corners[3]
             d1 == <<RSub(bottom_left[1], top_right[1]), RSub(bottom_left[2], top_right[2])>>
         IN  RDiv(NormOverSqrt2(d1), R(o.tag_length))

\* TrackingObject._get_scale_factor; the sqrt(2) of a diagonal along y = x or
\* y = -x cancels against diag_len = sqrt(2)*tag_length
_get_scale_factor(o, det) ==
    IF o.tag_length = NoLen THEN AssertionFailed
    ELSE LET bottom_left == det.corners[1]
             bottom_right == det.corners[2]
             top_right == det.corners[3]
             top_left == det.corners[4]
             d1 == <<RSub(bottom_left[1], top_right[1]), RSub(bottom_left[2], top_right[2])>>
             d2 == <<RSub(bottom_right[1], top_left[1]), RSub(bottom_right[2], top_left[2])>>
             diag_pixel == RDiv(RAdd(NormOverSqrt2(d1), NormOverSqrt2(d2)), R(2))
         IN  RDiv(diag_pixel, R(o.tag_length))

\* the while loop of _smooth_missed_frames: history[-mf] += m*dt, in place
RECURSIVE SmoothLoop(_, _, _, _, _)
SmoothLoop(heap, o, m, t0, mf) ==
    IF mf = 0 THEN heap
    ELSE LET n == Len(o.history)
             ref == o.history[n + 1 - mf]
             dt == o.t_history[n + 1 - mf] - t0
         IN  SmoothLoop([heap EXCEPT ![ref] = VAdd(heap[ref], VScale(m, R(dt)))],
                        o, m, t0, mf - 1)

\* TrackingObject._smooth_missed_frames; o already holds the new self.x, self.t
_smooth_missed_frames(o) ==
    LET n == Len(o.history)
        k == o.missed_frames
    IN  IF 1 + k > n
        THEN [o EXCEPT !.err = "IndexError"]
        ELSE LET t0 == o.t_history[n - k]
                 m == VDivS(VSub(X(o), o.heap[o.history[n - k]]), R(o.t - t0))
             IN  [o EXCEPT !.heap = SmoothLoop(o.heap, o, m, t0, k),
                           !.missed_frames = 0]

\* self.history.append(self.x): the entry is the array self.x refers to, not
\* a copy of it; call and kind tag the entry with the call that appended it
AppendHistory(o, call, kind) ==
    [o EXCEPT !.history = DequeAppend(o.history, o.x, o.maxlen),
              !.h_src = DequeAppend(o.h_src, [call |-> call, kind |-> kind], o.maxlen),
              !.h_log = Append(o.h_log, o.x)]

\* an append to t_history of the timestamp of the entry before
AppendTHistory_Stale(o, call) ==
    LET stale == IF Len(o.t_history) = 0 THEN 0 ELSE o.t_history[Len(o.t_history)]
    IN  [o EXCEPT !.t_history = DequeAppend(o.t_history, stale, o.maxlen),
                  !.th_src = DequeAppend(o.th_src, call, o.maxlen),
                  !.th_log = Append(o.th_log, stale)]

\* self.t_history.append(self.t)
AppendTHistory(o, call) ==
    [o EXCEPT !.t_history = DequeAppend(o.t_history, o.t, o.maxlen),
              !.th_src = DequeAppend(o.th_src, call, o.maxlen),
              !.th_log = Append(o.th_log, o.t)]

ZeroOffset == <<0, 0>>

\* an init_detection that returns without doing anything when det is None
init_detection_IgnoreNone(o, t, det, offset, call) ==
    IF det = None
    THEN [o EXCEPT !.err = "ok"]
    ELSE LET off == IF offset = None THEN ZeroOffset ELSE offset
             o1 == [o EXCEPT !.heap = Append(o.heap, _get_state(o, det, off)),
                             !.x = Len(o.heap) + 1]
             o2 == IF o.tag_length # NoLen
                   THEN [o1 EXCEPT !.scale_factor = _get_scale_factor(o, det)]
                   ELSE o1
             o3 == [o2 EXCEPT !.t = t]
             o4 == AppendHistory(AppendTHistory(o3, call), call, "init")
         IN  [o4 EXCEPT !.object_detected = TRUE, !.err = "ok"]

\* TrackingObject.init_detection(t, det, offset); call is the caller's number
\* for this call
\* an init_detection that sets the pose but appends nothing
init_detection_NoHistory(o, t, det, offset, call) ==
    IF det = None
    THEN [o EXCEPT !.err = "TypeError"]
    ELSE LET off == IF offset = None THEN ZeroOffset ELSE offset
             o1 == [o EXCEPT !.heap = Append(o.heap, _get_state(o, det, off)),
                             !.x = Len(o.heap) + 1]
             o2 == IF o.tag_length # NoLen
                   THEN [o1 EXCEPT !.scale_factor = _get_scale_factor(o, det)]
                   ELSE o1
             o3 == [o2 EXCEPT !.t = t]
         IN  [o3 EXCEPT !.object_detected = TRUE, !.err = "ok"]

init_detection(o, t, det, offset, call) ==
    IF det = None
    THEN [o EXCEPT !.err = "TypeError"]      \* det['center'] in _get_state
    ELSE LET off == IF offset = None THEN ZeroOffset ELSE offset
             o1 == [o EXCEPT !.heap = Append(o.heap, _get_state(o, det, off)),
                             !.x = Len(o.heap) + 1]
             o2 == IF o.tag_length # NoLen
                   THEN [o1 EXCEPT !.scale_factor = _get_scale_factor(o, det)]
                   ELSE o1
             o3 == [o2 EXCEPT !.t = t]
             o4 == AppendHistory(AppendTHistory(o3, call), call, "init")
         IN  [o4 EXCEPT !.object_detected = TRUE, !.err = "ok"]

\* add_timestep, det is None: count the miss, keep self.x, append
add_timestep_missed(o, call) ==
    LET o2 == [o EXCEPT !.missed_frames = o.missed_frames + 1]
    IN  AppendTHistory(AppendHistory(o2, call, "miss"), call)

\* add_timestep, det given: new self.x, smooth the gap if there is one,
\* append; an IndexError raised while smoothing leaves before the appends
add_timestep_detected(o, det, off, call) ==
    LET o2 == [o EXCEPT !.heap = Append(o.heap, _get_state(o, det, off)),
                        !.x = Len(o.heap) + 1]
        o3 == IF o2.missed_frames > 0 THEN _smooth_missed_frames(o2) ELSE o2
    IN  IF o3.err = "ok"
        THEN AppendTHistory(AppendHistory(o3, call, "det"), call)
        ELSE o3

\* an add_timestep without the assertion on _object_detected
add_timestep_Unguarded(o, t, det, offset, call) ==
    LET off == IF offset = None THEN ZeroOffset ELSE offset
        o1 == [o EXCEPT !.t = t, !.err = "ok"]
    IN  IF det = None
        THEN add_timestep_missed(o1, call)
        ELSE add_timestep_detected(o1, det, off, call)

\* an add_timestep that records the timestamp before it smooths the gap
add_timestep_EarlyTimestamp(o, t, det, offset, call) ==
    IF ~o.object_detected
    THEN [o EXCEPT !.err = "AssertionError"]
    ELSE LET off == IF offset = None THEN ZeroOffset ELSE offset
             o1 == [o EXCEPT !.t = t, !.err = "ok"]
             r == IF det = None
                  THEN add_timestep_missed(o1, call)
                  ELSE add_timestep_detected(o1, det, off, call)
         IN  IF r.err = "ok" THEN r ELSE AppendTHistory(r, call)

\* an add_timestep that uses the flag for "detected in this frame"
add_timestep_FlagPerFrame(o, t, det, offset, call) ==
    IF ~o.object_detected
    THEN [o EXCEPT !.err = "AssertionError"]
    ELSE LET off == IF offset = None THEN ZeroOffset ELSE offset
             o1 == [o EXCEPT !.t = t, !.err = "ok", !.object_detected = (det # None)]
         IN  IF det = None
             THEN add_timestep_missed(o1, call)
             ELSE add_timestep_detected(o1, det, off, call)

\* an add_timestep that records nothing for a frame without a detection
add_timestep_SkipMissed(o, t, det, offset, call) ==
    IF ~o.object_detected
    THEN [o EXCEPT !.err = "AssertionError"]
    ELSE LET off == IF offset = None THEN ZeroOffset ELSE offset
             o1 == [o EXCEPT !.t = t, !.err = "ok"]
         IN  IF det = None
             THEN [o1 EXCEPT !.missed_frames = o.missed_frames + 1]
             ELSE add_timestep_detected(o1, det, off, call)

\* an add_timestep that recomputes the scale factor from every detection
add_timestep_Rescale(o, t, det, offset, call) ==
    IF ~o.object_detected
    THEN [o EXCEPT !.err = "AssertionError"]
    ELSE LET off == IF offset = None THEN ZeroOffset ELSE offset
             o1 == [o EXCEPT !.t = t, !.err = "ok"]
         IN  IF det = None
             THEN add_timestep_missed(o1, call)
             ELSE add_timestep_detected(
                      IF o.tag_length # NoLen
                      THEN [o1 EXCEPT !.scale_factor = _get_scale_factor(o, det)]
                      ELSE o1, det, off, call)

\* TrackingObject.add_timestep(t, det, offset)
add_timestep(o, t, det, offset, call) ==
    IF ~o.object_detected
    THEN [o EXCEPT !.err = "AssertionError"]
    ELSE LET off == IF offset = None THEN ZeroOffset ELSE offset
             o1 == [o EXCEPT !.t = t, !.err = "ok"]
         IN  IF det = None
             THEN add_timestep_missed(o1, call)
             ELSE add_timestep_detected(o1, det, off, call)

\* the program's fields of an object, arrays by value
Prog(o) ==
    [id |-> o.id, tag_length |-> o.tag_length, maxlen |-> o.maxlen,
     x |-> X(o), t |-> o.t, history |-> Hist(o), t_history |-> o.t_history,
     scale_factor |-> o.scale_factor, missed_frames |-> o.missed_frames,
     object_detected |-> o.object_detected]

\* ------------------------------------------------------------------ Tracking
\* a sort that leaves the list in the order given
SortAsc_Unsorted(q) == q

\* list.sort() of a list of distinct tag ids
RECURSIVE SortAsc(_)
SortAsc(q) ==
    IF q = <<>> THEN <<>>
    ELSE LET m == CHOOSE a \in {q[i] : i \in 1..Len(q)} :
                      \A j \in 1..Len(q) : a <= q[j]
             rest == SelectSeq(q, LAMBDA e : e # m)
         IN  <<m>> \o SortAsc(rest)

Timeout == 5         \* seconds an object is waited for in _init_tracking

\* a timeout test that never fires
TimedOut_Never(clock, t_start) == FALSE

\* (time.time()-t_start)>5
TimedOut(clock, t_start) == (clock - t_start) > Timeout

\* a constructor that sorts the list it was given, without copying it
CopyAndSort_InPlace(tag_ids) ==
    [own |-> SortAsc(tag_ids), arg |-> SortAsc(tag_ids)]

\* self.tag_ids = deepcopy(tag_ids); self.tag_ids.sort(): own is
\* self.tag_ids, arg is the caller's list afterwards
CopyAndSort(tag_ids) ==
    [own |-> SortAsc(tag_ids), arg |-> tag_ids]

\* what the detector reports for tag id in frame number f: the tags move
\* back and forth between two poses from one frame to the next
SceneDet(id, f) ==
    IF f % 2 = 1 THEN TagDet(id, <<2 * id, 0>>, HalfSide, 0)
    ELSE TagDet(id, <<2 * id + 6, 3>>, HalfSide, 3)

\* the detection of obj.id among the detections of a frame, or None
\* (ids_detected, detections[ids_detected.index(obj.id)])
DetectionOf(o, ids_detected, f) ==
    IF o.id \in ids_detected THEN SceneDet(o.id, f) ELSE None

\* Tracking.get_scale_factor: [value, err]
RECURSIVE SumRat(_)
SumRat(q) == IF q = <<>> THEN R(0) ELSE RAdd(q[1], SumRat(Tail(q)))

get_scale_factor(objs) ==
    LET with_len == SelectSeq(objs, LAMBDA o : o.tag_length # NoLen)
        scale_factors == [i \in 1..Len(with_len) |-> with_len[i].scale_factor]
    IN  IF \E i \in 1..Len(scale_factors) : scale_factors[i] = None
        THEN [value |-> None, err |-> "TypeError"]           \* sum of a None
        ELSE IF Len(scale_factors) = 0
        THEN [value |-> None, err |-> "ZeroDivisionError"]
        ELSE [value |-> RDiv(SumRat(scale_factors), R(Len(scale_factors))),
              err |-> "ok"]

\* a loop that updates only the objects found among the detections
RECURSIVE SaveLoop_SkipAbsent(_, _, _, _, _, _, _)
SaveLoop_SkipAbsent(objs, i, ids_detected, f, t, offset, call) ==
    IF i > Len(objs) THEN [objs |-> objs, err |-> "ok"]
    ELSE IF objs[i].id \notin ids_detected
    THEN SaveLoop_SkipAbsent(objs, i + 1, ids_detected, f, t, offset, call)
    ELSE LET r == add_timestep(objs[i], t, DetectionOf(objs[i], ids_detected, f),
                               offset, call)
             objs1 == [objs EXCEPT ![i] = r]
         IN  IF r.err # "ok" THEN [objs |-> objs1, err |-> r.err]
             ELSE SaveLoop_SkipAbsent(objs1, i + 1, ids_detected, f, t, offset, call)

\* a loop that reads the clock again for every object
RECURSIVE SaveLoop_OwnClock(_, _, _, _, _, _, _)
SaveLoop_OwnClock(objs, i, ids_detected, f, t, offset, call) ==
    IF i > Len(objs) THEN [objs |-> objs, err |-> "ok"]
    ELSE LET r == add_timestep(objs[i], t + i, DetectionOf(objs[i], ids_detected, f),
                               offset, call)
             objs1 == [objs EXCEPT ![i] = r]
         IN  IF r.err # "ok" THEN [objs |-> objs1, err |-> r.err]
             ELSE SaveLoop_OwnClock(objs1, i + 1, ids_detected, f, t, offset, call)

\* the for loop of Tracking.save_detections from object i on; an exception
\* raised by an add_timestep ends the loop: [objs, err]
RECURSIVE SaveLoop(_, _, _, _, _, _, _)
SaveLoop(objs, i, ids_detected, f, t, offset, call) ==
    IF i > Len(objs) THEN [objs |-> objs, err |-> "ok"]
    ELSE LET r == add_timestep(objs[i], t, DetectionOf(objs[i], ids_detected, f),
                               offset, call)
             objs1 == [objs EXCEPT ![i] = r]
         IN  IF r.err # "ok" THEN [objs |-> objs1, err |-> r.err]
             ELSE SaveLoop(objs1, i + 1, ids_detected, f, t, offset, call)

\* a save_detections that stamps a frame with t0 - time.time()
save_detections_Backwards(tr, ids_detected, f, clock, call) ==
    LET offset == tr.roi_dims
        t == tr.t0 - clock
    IN  SaveLoop(tr.tracking_objects, 1, ids_detected, f, t, offset, call)

\* Tracking.save_detections(detections) at clock reading now
save_detections(tr, ids_detected, f, clock, call) ==
    LET offset == tr.roi_dims
        t == clock - tr.t0
    IN  SaveLoop(tr.tracking_objects, 1, ids_detected, f, t, offset, call)

\* get_ring_center(trck, ring_ids) of examples/ring_tracking_example.py:
\* sum(ring_tag_xy)/len(ring_tag_xy) over the objects whose id is in
\* ring_ids; [value, err]
get_ring_center(tr, ring_ids) ==
    LET sel == SelectSeq(tr.tracking_objects, LAMBDA o : o.id \in ring_ids)
        ring_tag_xy == [i \in 1..Len(sel) |-> <<X(sel[i])[1], X(sel[i])[2]>>]
        n == Len(ring_tag_xy)
    IN  IF n = 0
        THEN [value |-> None, err |-> "ZeroDivisionError"]     \* 0 / 0
        ELSE [value |-> <<RDiv(SumRat([i \in 1..n |-> ring_tag_xy[i][1]]), R(n)),
                          RDiv(SumRat([i \in 1..n |-> ring_tag_xy[i][2]]), R(n))>>,
              err |-> "ok"]

\* numpy arrays of one dimension (a sequence of numbers) or two (a sequence
\* of rows), and the failure of an operation on them
Array1(v) == [ndim |-> 1, v |-> v]
Array2(rows) == [ndim |-> 2, v |-> rows]
ValueError == [ndim |-> 0, v |-> <<>>]

\* np.hstack([a, b]): both are joined along axis 0 when the first has one
\* dimension and along axis 1 otherwise; np.concatenate refuses arrays of
\* different dimension or, along axis 1, of different row count
hstack(a, b) ==
    IF a = ValueError \/ b = ValueError THEN ValueError
    ELSE IF a.ndim # b.ndim THEN ValueError
    ELSE IF a.ndim = 1 THEN Array1(a.v \o b.v)
    ELSE IF Len(a.v) # Len(b.v) THEN ValueError
    ELSE Array2([i \in 1..Len(a.v) |-> a.v[i] \o b.v[i]])

\* np.hstack([np.array(obj.history) for obj in objs]) from object i on
RECURSIVE HStackHistories(_, _)
HStackHistories(objs, i) ==
    IF i = Len(objs) THEN Array2(Hist(objs[i]))
    ELSE hstack(Array2(Hist(objs[i])), HStackHistories(objs, i + 1))

\* Tracking.save_data(path): what np.savetxt is given, or the error raised
\* before it is reached
save_data(tr) ==
    LET t == Array1([i \in 1..Len(tr.tracking_objects[1].t_history) |->
                        R(tr.tracking_objects[1].t_history[i])])
        data == HStackHistories(tr.tracking_objects, 1)
        S == IF data = ValueError THEN ValueError
             ELSE Array2(SubSeq(data.v, 1, Len(data.v) - 1))       \* data[:-1]
        data_out == hstack(t, S)
    IN  IF data_out = ValueError
        THEN [t |-> t, S |-> S, written |-> None, err |-> "ValueError"]
        ELSE [t |-> t, S |-> S, written |-> data_out.v, err |-> "ok"]

\* ------------------------------------- Detection (src/src/modules/detection.py)
\* the older class: poses are flipped about frame_height, theta of the first
\* detection is in [0, 2*pi), and every append stores a copy of the pose
NewDetection(ID, frame_height, history_length) ==
    [id |-> ID,
     frame_height |-> frame_height,
     maxlen |-> history_length,
     x |-> Zeros3,
     t |-> 0,
     history |-> <<>>,
     t_history |-> <<>>,
     missed_frames |-> 0,
     object_detected |-> FALSE,
     err |-> "ok"]

\* centre and heading of a detection with the y axis flipped: <<x, y, theta>>
\* with theta in [0, 2*pi), offset added to the centre
FlippedPose(o, det, offset) ==
    LET center == <<det.center[1], RSub(R(o.frame_height), det.center[2])>>
        rt == det.corners[3]
        lt == det.corners[4]
        center_top == <<RDiv(RAdd(rt[1], lt[1]), R(2)),
                        RSub(R(o.frame_height), RDiv(RAdd(rt[2], lt[2]), R(2)))>>
        theta == RMod(R(Atan2(RSub(center_top[2], center[2]),
                              RSub(center_top[1], center[1]))), TwoPi)
    IN  <<RAdd(center[1], R(offset[1])), RAdd(center[2], R(offset[2])), theta>>

\* Detection.is_detected(t, det, offset): returns False and changes nothing
\* without a detection, initialises the object with one
is_detected(o, t, det, offset) ==
    LET off == IF offset = None THEN ZeroOffset ELSE offset
    IN  IF det = None THEN [o EXCEPT !.err = "ok"]
        ELSE LET x == FlippedPose(o, det, off)
             IN  [o EXCEPT !.object_detected = TRUE,
                           !.x = x,
                           !.t = t,
                           !.t_history = DequeAppend(o.t_history, t, o.maxlen),
                           !.history = DequeAppend(o.history, x, o.maxlen),
                           !.err = "ok"]

\* the while loop of Detection.add_timestep: history[-missed_frames] += m*dt
RECURSIVE LegacySmoothLoop(_, _, _, _, _)
LegacySmoothLoop(history, t_history, m, t0, mf) ==
    IF mf = 0 THEN history
    ELSE LET n == Len(history)
             dt == t_history[n + 1 - mf] - t0
         IN  LegacySmoothLoop(
                 [history EXCEPT ![n + 1 - mf] = VAdd(history[n + 1 - mf], VScale(m, R(dt)))],
                 t_history, m, t0, mf - 1)

\* the threshold of "if self.missed_frames > 0 and (t>2)"
SmoothAfter == 2

\* Detection.add_timestep(t, det, offset)
Detection_add_timestep(o, t, det, offset) ==
    IF ~o.object_detected THEN [o EXCEPT !.err = "AssertionError"]
    ELSE LET off == IF offset = None THEN ZeroOffset ELSE offset
             o1 == [o EXCEPT !.t = t]
         IN  IF det = None
             THEN [o1 EXCEPT !.t_history = DequeAppend(o.t_history, t, o.maxlen),
                             !.history = DequeAppend(o.history, o.x, o.maxlen),
                             !.missed_frames = o.missed_frames + 1,
                             !.err = "ok"]
             ELSE LET p == FlippedPose(o, det, off)
                      dtheta == RSub(RMod(RAdd(R(Pi), RSub(p[3], o.x[3])), TwoPi), R(Pi))
                      x == <<p[1], p[2], RAdd(o.x[3], dtheta)>>
                      o2 == [o1 EXCEPT !.x = x]
                      n == Len(o.history)
                      k == o.missed_frames
                  IN  IF k > 0 /\ t > SmoothAfter
                      THEN IF 1 + k > n THEN [o2 EXCEPT !.err = "IndexError"]
                           ELSE LET t0 == o.t_history[n - k]
                                    m == VDivS(VSub(x, o.history[n - k]), R(t - t0))
                                    h == LegacySmoothLoop(o.history, o.t_history, m, t0, k)
                                IN  [o2 EXCEPT !.history = DequeAppend(h, x, o.maxlen),
                                               !.t_history = DequeAppend(o.t_history, t, o.maxlen),
                                               !.missed_frames = 0,
                                               !.err = "ok"]
                      ELSE [o2 EXCEPT !.history = DequeAppend(o.history, x, o.maxlen),
                                      !.t_history = DequeAppend(o.t_history, t, o.maxlen),
                                      !.err = "ok"]

\* ------------------------------------------------------------------- state
\* obj: a TrackingObject driven directly by a caller; ncalls: calls made on
\* it; last: the last call, its arguments and the object before it
VARIABLES obj, ncalls, last

\* trk: the Tracking object; pc: "acquiring" inside the constructor's
\* _init_tracking, "ready" once it returned, "failed" when it raised;
\* now: the clock time.time() reads; nframes: frames captured so far;
\* nsteps: step() calls made; tlast: the last operation and its outcome
VARIABLES trk, pc, now, nframes, nsteps, tlast

tvars == <<trk, pc, now, nframes, nsteps, tlast>>

ovars == <<obj, ncalls, last>>
vars == <<obj, ncalls, last, trk, pc, now, nframes, nsteps, tlast>>

\* value of trk while no Tracking exists
NoTracking == [err |-> "none"]

\* ------------------------------------------- one TrackingObject and a caller
Capacities == {NoLen} \cup (1..MaxCap)
TagLength == 2
TagLengths == {NoLen, TagLength}
Offsets == {None}

Init ==
    /\ \E cap \in Capacities, len \in TagLengths :
          /\ obj = NewTrackingObject(1, cap, len)
          /\ last = [op |-> "new", t |-> 0, det |-> None, offset |-> None,
                     pre |-> NewTrackingObject(1, cap, len)]
    /\ ncalls = 0
    /\ trk = NoTracking /\ pc = "none" /\ now = 0 /\ nframes = 0 /\ nsteps = 0
    /\ tlast = [op |-> "none"]

\* timestamps a caller may pass next: later than every timestamp passed so far
TimeSteps == {1, 2}
NextTimes(o) == {o.t + dt : dt \in TimeSteps}

\* the caller calls init_detection(t, det, offset)
CallInitDetection ==
    /\ ncalls < MaxCalls
    /\ \E det \in Dets(obj.id) \cup {None}, offset \in Offsets, t \in NextTimes(obj) :
          /\ obj' = init_detection(obj, t, det, offset, ncalls + 1)
          /\ last' = [op |-> "init_detection", t |-> t, det |-> det,
                      offset |-> offset, pre |-> obj]
    /\ ncalls' = ncalls + 1
    /\ UNCHANGED tvars

\* the caller calls add_timestep(t, det, offset)
CallAddTimestep ==
    /\ ncalls < MaxCalls
    /\ \E det \in Dets(obj.id) \cup {None}, offset \in Offsets, t \in NextTimes(obj) :
          /\ obj' = add_timestep(obj, t, det, offset, ncalls + 1)
          /\ last' = [op |-> "add_timestep", t |-> t, det |-> det,
                      offset |-> offset, pre |-> obj]
    /\ ncalls' = ncalls + 1
    /\ UNCHANGED tvars

Next == CallInitDetection \/ CallAddTimestep

Spec == Init /\ [][Next]_vars

\* ---------------------------------- one TrackingObject and its scale factor
\* tag lengths and detections of several pixel sizes; a tag of length 10
\* whose half side is 50 pixels has diagonals of 141.42 pixels
ScaleLengths == {NoLen, 2, 10}
ScaleHalfSides == {1, 2, 50}
ScaleDets(id) ==
    {TagDet(id, c, s, o) : c \in {<<0, 0>>, <<6, 3>>}, s \in ScaleHalfSides, o \in 0..3}
        \cup {SkewDet(id, 2, 1), SkewDet(id, 50, 30)}

ScaleInitState ==
    /\ \E len \in ScaleLengths :
          /\ obj = NewTrackingObject(1, NoLen, len)
          /\ last = [op |-> "new", t |-> 0, det |-> None, offset |-> None,
                     pre |-> NewTrackingObject(1, NoLen, len)]
    /\ ncalls = 0
    /\ trk = NoTracking /\ pc = "none" /\ now = 0 /\ nframes = 0 /\ nsteps = 0
    /\ tlast = [op |-> "none"]

\* the first detection of the object
ScaleInit ==
    /\ ~obj.object_detected
    /\ \E det \in ScaleDets(obj.id) :
          /\ obj' = init_detection(obj, 0, det, None, ncalls + 1)
          /\ last' = [op |-> "init_detection", t |-> 0, det |-> det,
                      offset |-> None, pre |-> obj]
    /\ ncalls' = ncalls + 1
    /\ UNCHANGED tvars

\* a direct call of _get_scale_factor(det); the object is left as it is
ScaleCall ==
    /\ \E det \in ScaleDets(obj.id) :
          last' = [op |-> "_get_scale_factor", t |-> obj.t, det |-> det,
                   offset |-> None, pre |-> obj,
                   result |-> _get_scale_factor(obj, det)]
    /\ UNCHANGED <<obj, ncalls>>
    /\ UNCHANGED tvars

ScaleNext == ScaleInit \/ ScaleCall

ScaleSpec == ScaleInitState /\ [][ScaleNext]_vars

\* ------------------------------- one TrackingObject turned through headings
\* a caller that initializes the object once (at t = 0, as _init_tracking
\* does) and then updates it with tags in any of the eight headings
TurnCapacities == {NoLen, 1}

TurnInitState ==
    /\ \E cap \in TurnCapacities :
          /\ obj = NewTrackingObject(1, cap, NoLen)
          /\ last = [op |-> "new", t |-> 0, det |-> None, offset |-> None,
                     pre |-> NewTrackingObject(1, cap, NoLen)]
    /\ ncalls = 0
    /\ trk = NoTracking /\ pc = "none" /\ now = 0 /\ nframes = 0 /\ nsteps = 0
    /\ tlast = [op |-> "none"]

TurnInit ==
    /\ ncalls < MaxCalls
    /\ ~obj.object_detected
    /\ \E det \in HeadingDets(obj.id) :
          /\ obj' = init_detection(obj, 0, det, None, ncalls + 1)
          /\ last' = [op |-> "init_detection", t |-> 0, det |-> det,
                      offset |-> None, pre |-> obj]
    /\ ncalls' = ncalls + 1
    /\ UNCHANGED tvars

TurnUpdate ==
    /\ ncalls < MaxCalls
    /\ obj.object_detected
    /\ \E det \in HeadingDets(obj.id) \cup {None} :
          /\ obj' = add_timestep(obj, obj.t + 1, det, None, ncalls + 1)
          /\ last' = [op |-> "add_timestep", t |-> obj.t + 1, det |-> det,
                      offset |-> None, pre |-> obj]
    /\ ncalls' = ncalls + 1
    /\ UNCHANGED tvars

TurnNext == TurnInit \/ TurnUpdate

AngleSpec == TurnInitState /\ [][TurnNext]_vars

\* the caller calls init_detection again on an object it has initialised
TurnReinit ==
    /\ ncalls < MaxCalls
    /\ obj.object_detected
    /\ \E det \in HeadingDets(obj.id) :
          /\ obj' = init_detection(obj, obj.t + 1, det, None, ncalls + 1)
          /\ last' = [op |-> "init_detection", t |-> obj.t + 1, det |-> det,
                      offset |-> None, pre |-> obj]
    /\ ncalls' = ncalls + 1
    /\ UNCHANGED tvars

ReinitNext == TurnInit \/ TurnReinit

ReinitSpec == TurnInitState /\ [][ReinitNext]_vars

\* ------------------------------------------------- a Detection and its caller
FrameHeight == 8
LegacyCapacities == {NoLen, 2}

LegacyInit ==
    /\ \E cap \in LegacyCapacities :
          /\ obj = NewDetection(1, FrameHeight, cap)
          /\ last = [op |-> "new", t |-> 0, det |-> None, offset |-> None,
                     pre |-> NewDetection(1, FrameHeight, cap)]
    /\ ncalls = 0
    /\ trk = NoTracking /\ pc = "none" /\ now = 0 /\ nframes = 0 /\ nsteps = 0
    /\ tlast = [op |-> "none"]

\* the caller polls is_detected(0, det) as the older init_tracking does
LegacyIsDetected ==
    /\ ncalls < MaxCalls
    /\ ~obj.object_detected
    /\ \E det \in Dets(obj.id) \cup {None} :
          /\ obj' = is_detected(obj, 0, det, None)
          /\ last' = [op |-> "is_detected", t |-> 0, det |-> det,
                      offset |-> None, pre |-> obj]
    /\ ncalls' = ncalls + 1
    /\ UNCHANGED tvars

\* the caller calls add_timestep(t, det, offset) with a later timestamp
LegacyAddTimestep ==
    /\ ncalls < MaxCalls
    /\ \E det \in Dets(obj.id) \cup {None}, t \in NextTimes(obj) :
          /\ obj' = Detection_add_timestep(obj, t, det, None)
          /\ last' = [op |-> "Detection.add_timestep", t |-> t, det |-> det,
                      offset |-> None, pre |-> obj]
    /\ ncalls' = ncalls + 1
    /\ UNCHANGED tvars

LegacyNext == LegacyIsDetected \/ LegacyAddTimestep

LegacySpec == LegacyInit /\ [][LegacyNext]_vars

\* ------------------------------------------------ a Tracking and its caller
TagIdLists == {<<3, 1, 2>>, <<2, 1>>}
HistoryLens == {NoLen, 1}
RoiOffsets == {<<2, 1>>}
AcqTicks == {1, 3}
StepTicks == {1}

Ids(tr) == {tr.tag_ids[i] : i \in 1..Len(tr.tag_ids)}
Objs == trk.tracking_objects

\* Tracking.__init__ up to the first pass of the for loop of _init_tracking;
\* tag_length of each object is configuration (None or a known length)
NewTracking(tag_ids, history_len, roi, lens, clock) ==
    LET lists == CopyAndSort(tag_ids)
        sorted == lists.own
    IN  [tag_ids_given |-> tag_ids,   \* the list as the caller passed it
         tag_ids_arg |-> lists.arg,   \* the caller's list after the call
         tag_ids |-> sorted,
         history_len |-> history_len,
         roi_dims |-> roi,
         tracking_objects |->
             [i \in 1..Len(sorted) |->
                 NewTrackingObject(sorted[i], history_len, lens[sorted[i]])],
         t0 |-> clock,
         scale_factor |-> None,
         i |-> 1,                  \* the object _init_tracking is waiting for
         t_start |-> clock,
         err |-> "ok"]

TrackerInit ==
    /\ now = 0
    /\ \E ids \in TagIdLists, hl \in HistoryLens, roi \in RoiOffsets :
       \E lens \in [{ids[i] : i \in 1..Len(ids)} -> TagLengths] :
          trk = NewTracking(ids, hl, roi, lens, 0)
    /\ pc = "acquiring"
    /\ nframes = 0
    /\ nsteps = 0
    /\ tlast = [op |-> "new"]

\* an acquisition pass whose timeout check comes before the look at the frame
AcquireFrame_TimeoutFirst ==
    /\ pc = "acquiring"
    /\ nframes < MaxAcqFrames
    /\ \E ids_detected \in SUBSET Ids(trk), tick \in AcqTicks :
          LET o == Objs[trk.i]
              clock == now + tick
              f == nframes + 1
              timed_out == TimedOut(clock, trk.t_start)
              det == IF timed_out THEN None ELSE DetectionOf(o, ids_detected, f)
              o1 == init_detection(o, 0, det, None, f)
              objs1 == [Objs EXCEPT ![trk.i] = o1]
              sf == get_scale_factor(objs1)
              rec == [op |-> "acquire", i |-> trk.i, ids |-> ids_detected,
                      frame |-> f, det |-> det, timed_out |-> timed_out,
                      pre |-> trk, err |-> "ok"]
          IN  /\ now' = clock
              /\ nframes' = f
              /\ IF det = None /\ ~timed_out
                 THEN \* the loop goes round again
                      /\ trk' = trk
                      /\ pc' = pc
                      /\ tlast' = [rec EXCEPT !.op = "wait"]
                 ELSE IF o1.err # "ok"
                 THEN \* init_detection raised: the constructor fails
                      /\ trk' = [trk EXCEPT !.err = o1.err]
                      /\ pc' = "failed"
                      /\ tlast' = [rec EXCEPT !.err = o1.err]
                 ELSE IF sf.err # "ok"
                 THEN \* get_scale_factor raised: the constructor fails
                      /\ trk' = [trk EXCEPT !.tracking_objects = objs1, !.err = sf.err]
                      /\ pc' = "failed"
                      /\ tlast' = [rec EXCEPT !.err = sf.err]
                 ELSE /\ trk' = [trk EXCEPT !.tracking_objects = objs1,
                                            !.scale_factor = sf.value,
                                            !.i = trk.i + 1,
                                            !.t_start = clock]
                      /\ pc' = IF trk.i = Len(Objs) THEN "ready" ELSE "acquiring"
                      /\ tlast' = rec
    /\ UNCHANGED <<nsteps, ovars>>

\* one pass of the while loop of _init_tracking and, when the loop ends,
\* init_detection(0, det), get_scale_factor and the move to the next object
AcquireFrame ==
    /\ pc = "acquiring"
    /\ nframes < MaxAcqFrames
    /\ \E ids_detected \in SUBSET Ids(trk), tick \in AcqTicks :
          LET o == Objs[trk.i]
              clock == now + tick
              f == nframes + 1
              det == DetectionOf(o, ids_detected, f)
              timed_out == TimedOut(clock, trk.t_start)
              o1 == init_detection(o, 0, det, None, f)
              objs1 == [Objs EXCEPT ![trk.i] = o1]
              sf == get_scale_factor(objs1)
              rec == [op |-> "acquire", i |-> trk.i, ids |-> ids_detected,
                      frame |-> f, det |-> det, timed_out |-> timed_out,
                      pre |-> trk, err |-> "ok"]
          IN  /\ now' = clock
              /\ nframes' = f
              /\ IF det = None /\ ~timed_out
                 THEN \* the loop goes round again
                      /\ trk' = trk
                      /\ pc' = pc
                      /\ tlast' = [rec EXCEPT !.op = "wait"]
                 ELSE IF o1.err # "ok"
                 THEN \* init_detection raised: the constructor fails
                      /\ trk' = [trk EXCEPT !.err = o1.err]
                      /\ pc' = "failed"
                      /\ tlast' = [rec EXCEPT !.err = o1.err]
                 ELSE IF sf.err # "ok"
                 THEN \* get_scale_factor raised: the constructor fails
                      /\ trk' = [trk EXCEPT !.tracking_objects = objs1, !.err = sf.err]
                      /\ pc' = "failed"
                      /\ tlast' = [rec EXCEPT !.err = sf.err]
                 ELSE /\ trk' = [trk EXCEPT !.tracking_objects = objs1,
                                            !.scale_factor = sf.value,
                                            !.i = trk.i + 1,
                                            !.t_start = clock]
                      /\ pc' = IF trk.i = Len(Objs) THEN "ready" ELSE "acquiring"
                      /\ tlast' = rec
    /\ UNCHANGED <<nsteps, ovars>>

\* Tracking.step(): capture a frame, detect, save_detections
Step ==
    /\ pc = "ready"
    /\ nsteps < MaxSteps
    /\ \E ids_detected \in SUBSET Ids(trk), tick \in StepTicks :
          LET clock == now + tick
              f == nframes + 1
              r == save_detections(trk, ids_detected, f, clock, f)
          IN  /\ now' = clock
              /\ nframes' = f
              /\ trk' = [trk EXCEPT !.tracking_objects = r.objs]
              /\ tlast' = [op |-> "step", ids |-> ids_detected, frame |-> f,
                           t |-> clock - trk.t0, pre |-> trk, err |-> r.err]
    /\ nsteps' = nsteps + 1
    /\ UNCHANGED <<pc, ovars>>

\* the sets of ids a caller asks the centroid of; 9 is not a tracked id
RingIdSets == {{1, 3}, {9}}

\* the caller asks for the centroid of some tags of a constructed Tracking
GetRingCenter ==
    /\ pc = "ready"
    /\ \E ring_ids \in RingIdSets :
          LET r == get_ring_center(trk, ring_ids)
          IN  tlast' = [op |-> "centroid", ids |-> ring_ids, value |-> r.value,
                        pre |-> trk, err |-> r.err]
    /\ UNCHANGED <<trk, pc, now, nframes, nsteps, ovars>>

\* a Tracking driven by its constructor and then by step() calls
NoObject == NewTrackingObject(0, NoLen, NoLen)

TInit ==
    /\ TrackerInit
    /\ obj = NoObject /\ ncalls = 0 /\ last = [op |-> "none"]

TNext == AcquireFrame \/ Step \/ GetRingCenter

TrackerSpec == TInit /\ [][TNext]_vars

\* a caller saves the histories of a started Tracking
SaveData ==
    /\ pc = "ready"
    /\ LET r == save_data(trk)
       IN  tlast' = [op |-> "save", written |-> r.written, S |-> r.S,
                     pre |-> trk, err |-> r.err]
    /\ UNCHANGED <<trk, pc, now, nframes, nsteps, ovars>>

ExportNext == AcquireFrame \/ Step \/ SaveData

ExportSpec == TInit /\ [][ExportNext]_vars

\* ------------------------------------------------- properties of one object
Min(a, b) == IF a < b THEN a ELSE b
Last(q) == q[Len(q)]
\* the last n elements of q
Suffix(q, n) == SubSeq(q, Len(q) - n + 1, Len(q))

pre == last.pre
Called(op) == last.op = op
Succeeded == obj.err = "ok"
\* the last call was an add_timestep with a detection and returned normally
DetectedUpdate == Called("add_timestep") /\ last.det # None /\ Succeeded
\* the last call was an add_timestep without a detection and returned normally
MissedUpdate == Called("add_timestep") /\ last.det = None /\ Succeeded

\* before the last call the object was in a gap of k missed updates that
\* follow a detected entry (t0, p0) still stored in its history
GapBefore(k) ==
    /\ k >= 1
    /\ pre.missed_frames = k
    /\ k + 1 <= Len(pre.history)
    /\ \A i \in 1..k : pre.h_src[Len(pre.history) - k + i].kind = "miss"
    /\ pre.h_src[Len(pre.history) - k].kind \in {"init", "det"}

\* p0 + (new_pose - p0) * (ti - t0) / (t - t0), component-wise
Interpolate(p0, t0, new_pose, t, ti) ==
    VAdd(p0, VDivS(VScale(VSub(new_pose, p0), R(ti - t0)), R(t - t0)))

\* C1: after a detected update that closes a gap of k >= 1 missed updates,
\* each of the k placeholder entries holds the linear interpolation between
\* the entry before the gap and the new pose at its own timestamp.
C1_InterpolationExact ==
    \A k \in 1..MaxCalls :
        (DetectedUpdate /\ GapBefore(k)) =>
            LET n == Len(pre.history)
                L == Len(obj.history)
                t0 == pre.t_history[n - k]
                p0 == Val(pre, pre.history[n - k])
            IN  \A i \in 1..k :
                    Val(obj, obj.history[L - k - 1 + i]) =
                        Interpolate(p0, t0, X(obj), last.t, pre.t_history[n - k + i])

\* the spec's example in this model's inputs: detected at (0, 0), two
\* misses, detected at (6, 3): the code leaves both placeholders at the sum
\* of the two increments instead of one third and two thirds of the way
C1_GapOfTwoClosed == DetectedUpdate /\ GapBefore(2)

\* C2: a detected update that closes a gap leaves the entry before the gap,
\* every earlier entry and every stored timestamp as they were.
C2_OnlyGapRewritten ==
    \A k \in 1..MaxCalls :
        (DetectedUpdate /\ GapBefore(k)) =>
            LET n == Len(pre.history)
                L == Len(obj.history)
                shift == n + 1 - L       \* entries evicted by the append
            IN  /\ \A j \in 1..(L - 1) :
                       (j + shift <= n - k) =>
                           Val(obj, obj.history[j]) = Val(pre, pre.history[j + shift])
                /\ \A j \in 1..(L - 1) : obj.t_history[j] = pre.t_history[j + shift]

\* C3: the history holds exactly the most recent min(N, appended) entries in
\* the order they were appended; with no capacity it holds every entry.
C3_BoundedFIFO ==
    LET N == obj.maxlen
        appended == Len(obj.h_log)
        kept == IF N = NoLen THEN appended ELSE Min(N, appended)
    IN  /\ Len(obj.history) = kept
        /\ N # NoLen => Len(obj.history) <= N
        /\ obj.history = Suffix(obj.h_log, kept)
        /\ obj.t_history = Suffix(obj.th_log, Min(Len(obj.th_log), kept))

C3_Evicted == obj.maxlen # NoLen /\ Len(obj.h_log) >= obj.maxlen + 2

\* C4: history and t_history have the same length and entry i of each was
\* appended by the same call, also after calls that failed.
C4_Aligned ==
    /\ Len(obj.history) = Len(obj.t_history)
    /\ \A i \in 1..Len(obj.history) :
           i <= Len(obj.th_src) /\ obj.h_src[i].call = obj.th_src[i]

C4_AfterFailure ==
    /\ Len(obj.history) >= 2
    /\ \E c \in 1..ncalls : \A i \in 1..Len(obj.history) : obj.h_src[i].call # c
    /\ ~Succeeded

\* C5: once initialized, the entry of the last successful detection is still
\* stored missed_frames + 1 positions from the end of the history.
C5_LastDetectionKept ==
    obj.object_detected => obj.missed_frames + 1 <= Len(obj.history)

\* C6: add_timestep on an object that was never initialized fails and
\* changes nothing.
C6_UpdateBeforeInit ==
    (Called("add_timestep") /\ ~pre.object_detected) =>
        /\ obj.err = "AssertionError"
        /\ Prog(obj) = Prog(pre)
        /\ obj.h_log = pre.h_log /\ obj.th_log = pre.th_log

C6_UpdateBeforeInitCalled ==
    Called("add_timestep") /\ ~pre.object_detected /\ last.det # None

\* C7 as stated: init_detection on an object that is already initialized
\* fails and leaves the current pose, the scale factor and the history alone.
C7_SecondInitRejected ==
    (Called("init_detection") /\ pre.object_detected) =>
        /\ ~Succeeded
        /\ X(obj) = X(pre)
        /\ obj.scale_factor = pre.scale_factor
        /\ Hist(obj) = Hist(pre)

\* C8: the detected flag is false at construction, becomes true exactly at
\* the first init_detection that returns normally and is never cleared.
C8_DetectedOnceAndForAll ==
    /\ ~obj.object_detected
    /\ [][/\ obj.object_detected => obj'.object_detected
          /\ (~obj.object_detected /\ obj'.object_detected) =>
                 (last'.op = "init_detection" /\ obj'.err = "ok")
          /\ (last'.op = "init_detection" /\ obj'.err = "ok") =>
                 obj'.object_detected]_vars

C8_StillDetected ==
    /\ obj.object_detected
    /\ Called("add_timestep") /\ pre.object_detected
    /\ obj.err = "IndexError"

\* C10: an add_timestep that returns normally appends exactly one entry to
\* history and one to t_history; without a detection the appended pose is
\* the current pose, which stays as it was, and the current timestamp
\* becomes the call's timestamp.
C10_OneEntryPerUpdate ==
    (Called("add_timestep") /\ Succeeded) =>
        LET L == Len(obj.history)
            kept == Min(Len(pre.history) + 1,
                        IF obj.maxlen = NoLen THEN Len(pre.history) + 1 ELSE obj.maxlen)
        IN  /\ L = kept /\ Len(obj.t_history) = kept
            /\ SubSeq(obj.history, 1, L - 1) = Suffix(pre.history, L - 1)
            /\ SubSeq(obj.t_history, 1, L - 1) = Suffix(pre.t_history, L - 1)
            /\ obj.h_src[L].call = ncalls /\ obj.th_src[L] = ncalls
            /\ Len(obj.h_log) = Len(pre.h_log) + 1
            /\ Len(obj.th_log) = Len(pre.th_log) + 1
            /\ Last(obj.t_history) = last.t
            /\ obj.t = last.t
            /\ last.det = None =>
                   /\ Val(obj, Last(obj.history)) = X(pre)
                   /\ X(obj) = X(pre)

C10_MissAppended ==
    /\ MissedUpdate
    /\ pre.missed_frames >= 1
    /\ obj.maxlen # NoLen /\ Len(pre.history) = obj.maxlen

\* C11: every add_timestep with a detection on an initialized object returns
\* normally, whatever the number of misses before it, and leaves
\* missed_frames = 0 and the newly computed pose at the call's timestamp as
\* the last history entry: the next detection closes a gap of any length.
C11_GapClosed ==
    (Called("add_timestep") /\ last.det # None /\ pre.object_detected) =>
        /\ Succeeded
        /\ obj.missed_frames = 0
        /\ X(obj) = _get_state(pre, last.det, ZeroOffset)
        /\ Val(obj, Last(obj.history)) = X(obj)
        /\ Last(obj.t_history) = last.t

\* the last call computed a pose from a detection (self.x = _get_state(...))
PoseComputed ==
    /\ last.det # None
    /\ \/ Called("init_detection")
       \/ Called("add_timestep") /\ pre.object_detected
\* theta after the last call minus theta before it
Dtheta == RSub(X(obj)[3], X(pre)[3])
\* the heading of a detection, in [0, 2*pi)
RawHeading(det) ==
    RMod(_get_state(NewTrackingObject(0, NoLen, NoLen), det, ZeroOffset)[3], TwoPi)

\* C12: the theta computed by an add_timestep with a detection differs by at
\* most pi in magnitude from the current theta before the call, which is the
\* theta of the previous detected frame: misses leave theta as it was.
C12_AngleContinuity ==
    /\ (Called("add_timestep") /\ last.det # None /\ pre.object_detected) =>
           RLeq(RAbs(Dtheta), R(Pi))
    /\ MissedUpdate => X(obj)[3] = X(pre)[3]

\* a detected update after a miss whose heading crosses the 0/2*pi boundary:
\* theta leaves [0, 2*pi) downwards
C12_BoundaryCrossed ==
    /\ DetectedUpdate /\ pre.missed_frames >= 1
    /\ RLeq(R(0), X(pre)[3]) /\ RLt(X(pre)[3], R(TwoPi))
    /\ RLt(X(obj)[3], R(0))

\* C13 as stated: the corrected delta d lies in (-pi, pi], so a heading
\* exactly pi away from the previous theta gives previous theta + pi.
C13_WrapHalfOpenAbove ==
    PoseComputed => (RLt(R(-Pi), Dtheta) /\ RLeq(Dtheta, R(Pi)))

\* C13 amended: the corrected delta d lies in [-pi, pi) and is the raw
\* heading minus the previous theta modulo 2*pi, so a heading exactly pi
\* away from the previous theta gives previous theta - pi.
C13_WrapHalfOpenBelow ==
    PoseComputed =>
        /\ RLeq(R(-Pi), Dtheta) /\ RLt(Dtheta, R(Pi))
        /\ RMod(X(obj)[3], TwoPi) = RawHeading(last.det)
        /\ RMod(RSub(RawHeading(last.det), X(pre)[3]), TwoPi) = R(Pi) =>
               X(obj)[3] = RSub(X(pre)[3], R(Pi))

C13_HeadingOppositeSeen ==
    /\ PoseComputed
    /\ RMod(RSub(RawHeading(last.det), X(pre)[3]), TwoPi) = R(Pi)
    /\ Dtheta = R(-Pi)

\* ------------------------------------------------- properties of a Tracking
tpre == tlast.pre
Stepped == tlast.op = "step"
AllTracking(tr) ==
    \A i \in 1..Len(tr.tracking_objects) : tr.tracking_objects[i].object_detected

\* C9: one step of a Tracking whose objects are all initialized leaves every
\* object that is not among the detections with one more missed frame and
\* the same pose, gives every detected object the pose of its own detection
\* and missed_frames = 0, and treats each object as if it were stepped alone.
C9_StepIndependent ==
    (Stepped /\ AllTracking(tpre)) =>
        \A i \in 1..Len(Objs) :
            LET o == tpre.tracking_objects[i]
                n == Objs[i]
                det == DetectionOf(o, tlast.ids, tlast.frame)
            IN  /\ det = None =>
                       /\ n.missed_frames = o.missed_frames + 1
                       /\ X(n) = X(o)
                /\ det # None =>
                       /\ X(n) = _get_state(o, det, trk.roi_dims)
                       /\ n.missed_frames = 0
                /\ Prog(n) = Prog(add_timestep(o, tlast.t, det, trk.roi_dims, tlast.frame))

Acquired == tlast.op \in {"wait", "acquire"}
\* the fresh object _init_tracking builds for position j
Unseen(j) == NewTrackingObject(trk.tag_ids[j], trk.history_len, Objs[j].tag_length)

C16_SequentialAscending ==
    /\ \A i, j \in 1..Len(Objs) :
           (Objs[i].id < Objs[j].id /\ Objs[j].object_detected) =>
               Objs[i].object_detected
    /\ Acquired =>
           \A j \in 1..Len(Objs) :
               j # tlast.i => Objs[j] = tpre.tracking_objects[j]
    /\ tlast.op = "wait" => Objs = tpre.tracking_objects

C16_OtherTagsIgnored ==
    /\ tlast.op = "acquire" /\ tlast.err = "ok"
    /\ Objs[tlast.i].object_detected
    /\ \E j \in 1..Len(Objs) :
           /\ j > tlast.i
           /\ Objs[j].id \in tlast.ids
           /\ ~Objs[j].object_detected

\* C17: when the acquisition of the last object completes, t0 is the clock
\* reading of that moment.
C17_T0AtCompletion ==
    (tlast.op = "acquire" /\ pc = "ready") => trk.t0 = now

\* C18: once acquisition is over all objects of a Tracking have histories of
\* the same length, and a step that completes appends exactly one entry to
\* the history of every object.
C18_Lockstep ==
    /\ pc = "ready" =>
           \A i, j \in 1..Len(Objs) :
               /\ Len(Objs[i].history) = Len(Objs[j].history)
               /\ Len(Objs[i].t_history) = Len(Objs[j].t_history)
    /\ (Stepped /\ tlast.err = "ok") =>
           \A i \in 1..Len(Objs) :
               /\ Len(Objs[i].h_log) = Len(tpre.tracking_objects[i].h_log) + 1
               /\ Len(Objs[i].th_log) = Len(tpre.tracking_objects[i].th_log) + 1

C18_MixedSteps ==
    /\ Stepped /\ tlast.err = "ok"
    /\ tlast.ids # {} /\ tlast.ids # Ids(trk)
    /\ \A i \in 1..Len(Objs) : Len(Objs[i].history) >= 3

\* C19: the constructor builds one object per id of the list it was given,
\* in ascending order of id whatever the order of that list, and leaves the
\* caller's list as it was.
C19_OneObjectPerIdentity ==
    LET given == trk.tag_ids_given
    IN  /\ Len(Objs) = Len(given)
        /\ {Objs[i].id : i \in 1..Len(Objs)} = {given[i] : i \in 1..Len(given)}
        /\ \A i, j \in 1..Len(Objs) : i < j => Objs[i].id < Objs[j].id
        /\ \A i \in 1..Len(Objs) : Objs[i].id = trk.tag_ids[i]
        /\ trk.tag_ids_arg = given

C19_UnsortedInput ==
    /\ \E i \in 1..(Len(trk.tag_ids_given) - 1) :
           trk.tag_ids_given[i] > trk.tag_ids_given[i + 1]
    /\ pc = "ready"

\* positions of the objects whose id is in ids
Matching(ids) == {i \in 1..Len(Objs) : Objs[i].id \in ids}
\* sum of coordinate k of the current poses of the objects at positions S
RECURSIVE SumCoord(_, _)
SumCoord(S, k) ==
    IF S = {} THEN R(0)
    ELSE LET i == CHOOSE j \in S : TRUE
         IN  RAdd(X(Objs[i])[k], SumCoord(S \ {i}, k))

\* C20: the centroid of a set of ids is the arithmetic mean of the current
\* (x, y) of exactly the objects whose id is in the set, and when no object
\* matches the call fails with the error raised for an empty selection.
C20_Centroid ==
    tlast.op = "centroid" =>
        LET M == Matching(tlast.ids)
        IN  IF M = {}
            THEN tlast.err = "EmptySelection"
            ELSE /\ tlast.err = "ok"
                 /\ \A k \in 1..2 :
                        RMul(tlast.value[k], R(Cardinality(M))) = SumCoord(M, k)

\* positions of the objects that have a tag length
Calibrated == {j \in 1..Len(Objs) : Objs[j].tag_length # NoLen}
RECURSIVE SumScale(_)
SumScale(S) ==
    IF S = {} THEN R(0)
    ELSE LET i == CHOOSE j \in S : TRUE
         IN  RAdd(Objs[i].scale_factor, SumScale(S \ {i}))

\* C21: whenever get_scale_factor is called (after each init_detection of
\* the constructor) it returns the arithmetic mean of the scale factors of
\* exactly the objects that have a tag length, and when no object has one it
\* fails with the error raised for the lack of calibrated markers.
C21_ScaleFactorMean ==
    (tlast.op = "acquire" /\ Objs[tlast.i].object_detected) =>
        IF Calibrated = {}
        THEN tlast.err = "NoCalibratedMarkers"
        ELSE /\ tlast.err = "ok"
             /\ \A j \in Calibrated : Objs[j].scale_factor # None
             /\ RMul(trk.scale_factor, R(Cardinality(Calibrated))) = SumScale(Calibrated)

\* C22: an object's scale factor is None until its first init_detection,
\* init_detection stores one exactly when a tag length is configured, and
\* no add_timestep, detected or missed, failed or not, changes it.
C22_ScaleFactorSetOnce ==
    /\ ~obj.object_detected => obj.scale_factor = None
    /\ (Called("init_detection") /\ Succeeded) =>
           /\ obj.tag_length = NoLen => obj.scale_factor = pre.scale_factor
           /\ obj.tag_length # NoLen =>
                  obj.scale_factor = _get_scale_factor(pre, last.det)
           /\ ~pre.object_detected =>
                  (obj.scale_factor # None <=> obj.tag_length # NoLen)
    /\ Called("add_timestep") => obj.scale_factor = pre.scale_factor

\* a detected update with a tag that looks larger than the one the scale
\* factor was taken from
C22_LargerTagSeen ==
    /\ DetectedUpdate
    /\ obj.tag_length # NoLen
    /\ obj.scale_factor # None
    /\ obj.scale_factor # _get_scale_factor(obj, last.det)

\* C23: _get_scale_factor on an object without a tag length fails with an
\* error instead of returning a value, and init_detection of such an object
\* does not call it: it returns normally and stores no scale factor.
C23_NoLengthNoScale ==
    /\ (Called("_get_scale_factor") /\ pre.tag_length = NoLen) =>
           last.result = AssertionFailed
    /\ (Called("_get_scale_factor") /\ pre.tag_length # NoLen) =>
           last.result # AssertionFailed
    /\ (Called("init_detection") /\ pre.tag_length = NoLen) =>
           /\ Succeeded
           /\ obj.scale_factor = None

C23_AskedWithoutLength ==
    /\ Called("_get_scale_factor") /\ pre.tag_length = NoLen
    /\ pre.object_detected /\ pre.scale_factor = None

\* half the sum of the two corner-to-corner distances, divided by sqrt(2)
MeanDiagonalOverSqrt2(det) ==
    RDiv(RAdd(RAbs(RSub(det.corners[1][1], det.corners[3][1])),
              RAbs(RSub(det.corners[2][1], det.corners[4][1]))), R(2))

\* C24: the scale factor of a detection is the average of its two diagonal
\* pixel lengths divided by (tag length times sqrt(2)); a tag of length 10
\* with diagonals of 141.42 pixels (half side 50) gives 10.
C24_ScaleFactorValue ==
    (Called("_get_scale_factor") /\ pre.tag_length # NoLen) =>
        /\ RMul(last.result, R(pre.tag_length)) = MeanDiagonalOverSqrt2(last.det)
        /\ (pre.tag_length = 10 /\ last.det = TagDet(pre.id, <<0, 0>>, 50, 0)) =>
               last.result = R(10)

C24_UnequalDiagonals ==
    /\ Called("_get_scale_factor") /\ pre.tag_length = 10
    /\ last.det = SkewDet(pre.id, 50, 30)
    /\ last.result = R(8)

StrictlyIncreasing(ts) == \A i \in 1..(Len(ts) - 1) : ts[i] < ts[i + 1]

\* C25: for every object driven by the Tracking (init_detection during
\* acquisition, then steps) each timestamp appended to t_history is greater
\* than the one appended before it, so the divisor t - t0 of the
\* interpolation is positive.
C25_TimestampsIncrease ==
    trk # NoTracking =>
        \A j \in 1..Len(Objs) :
            /\ StrictlyIncreasing(Objs[j].th_log)
            /\ StrictlyIncreasing(Objs[j].t_history)
            /\ (Stepped /\ Objs[j].err = "ok" /\ tpre.tracking_objects[j].err = "ok"
                    /\ Len(tpre.tracking_objects[j].t_history) > 0) =>
                   \A i \in 1..Len(tpre.tracking_objects[j].t_history) :
                       tlast.t - tpre.tracking_objects[j].t_history[i] > 0

C25_GapInterpolated ==
    /\ Stepped /\ tlast.err = "ok"
    /\ \E j \in 1..Len(Objs) :
           /\ tpre.tracking_objects[j].missed_frames > 0
           /\ Objs[j].missed_frames = 0
           /\ Len(Objs[j].th_log) >= 3

\* the length every history has, when they all have the same
EqualLengths(tr) ==
    \A j \in 1..Len(tr.tracking_objects) :
        /\ Len(tr.tracking_objects[j].history) = Len(tr.tracking_objects[1].history)
        /\ Len(tr.tracking_objects[j].t_history) = Len(tr.tracking_objects[1].history)

RECURSIVE RowOf(_, _, _)
RowOf(tr, i, j) ==
    IF j > Len(tr.tracking_objects) THEN <<>>
    ELSE Hist(tr.tracking_objects[j])[i] \o RowOf(tr, i, j + 1)

\* C26: saving histories of equal length writes one row per history slot:
\* as many rows as the histories are long, row i being t_history[i] followed
\* by history[i] of every object in ascending id order, the last slot
\* included.
C26_ExportAllSlots ==
    (tlast.op = "save" /\ EqualLengths(tpre)) =>
        /\ tlast.err = "ok"
        /\ tlast.written # None
        /\ Len(tlast.written) = Len(tpre.tracking_objects[1].history)
        /\ \A i \in 1..Len(tlast.written) :
               tlast.written[i] =
                   <<R(tpre.tracking_objects[1].t_history[i])>> \o RowOf(tpre, i, 1)

\* the last call was an init_detection with a detection on an object never
\* detected before
FirstInit == Called("init_detection") /\ last.det # None /\ ~pre.object_detected

\* C27: init_detection on an object never detected before computes the pose
\* against a previous theta of 0, sets the current pose and timestamp,
\* appends exactly one (timestamp, pose) entry to the empty history, leaves
\* missed_frames at 0 and sets the detected flag.
C27_FirstInit ==
    FirstInit =>
        LET off == IF last.offset = None THEN ZeroOffset ELSE last.offset
            pose == _get_state(NewTrackingObject(0, NoLen, NoLen), last.det, off)
        IN  /\ Succeeded
            /\ Hist(pre) = <<>> /\ pre.t_history = <<>>
            /\ X(obj) = pose
            /\ RLeq(R(-Pi), X(obj)[3]) /\ RLt(X(obj)[3], R(Pi))
            /\ RMod(X(obj)[3], TwoPi) = RawHeading(last.det)
            /\ obj.t = last.t
            /\ Hist(obj) = <<pose>>
            /\ obj.t_history = <<last.t>>
            /\ obj.missed_frames = 0
            /\ obj.object_detected

C27_TurnedTagInitialised ==
    /\ FirstInit /\ Succeeded
    /\ X(obj)[3] # R(0)
    /\ Len(obj.history) = 1

\* C28: an add_timestep with a detection that cannot find the last detected
\* entry (missed_frames >= len(history)) fails and leaves the object as it
\* was before the call: x, t, missed_frames, history and t_history.
C28_FailedUpdateAtomic ==
    (Called("add_timestep") /\ last.det # None /\ pre.object_detected
         /\ pre.missed_frames >= Len(pre.history)) =>
        /\ ~Succeeded
        /\ X(obj) = X(pre)
        /\ obj.t = pre.t
        /\ obj.missed_frames = pre.missed_frames
        /\ Hist(obj) = Hist(pre)
        /\ obj.t_history = pre.t_history

\* C29: a step is all-or-nothing: when the update of one object fails during
\* a step, no object of the Tracking has gained a history entry from that
\* step, and the histories are as equally long as before.
C29_StepAllOrNothing ==
    (Stepped /\ tlast.err # "ok") =>
        \A j \in 1..Len(Objs) :
            /\ Objs[j].h_log = tpre.tracking_objects[j].h_log
            /\ Objs[j].th_log = tpre.tracking_objects[j].th_log
            /\ Len(Objs[j].history) = Len(Objs[1].history)

\* C30: missed_frames is never negative and counts the most recent
\* consecutive successful updates without a detection: it is 0 on a new
\* object, 0 right after an init_detection or an update with a detection,
\* one more after an update without a detection, and a failed call leaves it.
C30_MissedFramesCount ==
    /\ obj.missed_frames >= 0
    /\ ~obj.object_detected => obj.missed_frames = 0
    /\ (Called("init_detection") /\ Succeeded) => obj.missed_frames = 0
    /\ DetectedUpdate => obj.missed_frames = 0
    /\ MissedUpdate => obj.missed_frames = pre.missed_frames + 1
    /\ ((Called("init_detection") \/ Called("add_timestep")) /\ ~Succeeded) =>
           obj.missed_frames = pre.missed_frames

\* C31: after every init_detection or add_timestep that returns normally the
\* newest history entry equals the current pose and the newest t_history
\* entry equals the current timestamp.
C31_NewestIsCurrent ==
    ((Called("init_detection") \/ Called("add_timestep")) /\ Succeeded) =>
        /\ Len(obj.history) > 0 /\ Len(obj.t_history) > 0
        /\ Hist(obj)[Len(obj.history)] = X(obj)
        /\ obj.t_history[Len(obj.t_history)] = obj.t
        /\ obj.t = last.t

C31_AfterClosedGap ==
    /\ DetectedUpdate /\ pre.missed_frames > 0
    /\ X(obj) # X(pre)
    /\ Len(obj.history) >= 3

\* every object of the Tracking holds the t_history of the first
SameTimeColumn(tr) ==
    \A j \in 1..Len(tr.tracking_objects) :
        tr.tracking_objects[j].t_history = tr.tracking_objects[1].t_history

\* C32: when acquisition is over every object holds the t_history <<0>>, and
\* a step that completes on objects with one common t_history leaves them
\* with one common t_history, its newest entry being the timestamp of the
\* step: after acquisition and completed steps the t_history of the first
\* object is the time column of all.
C32_CommonTimeColumn ==
    /\ (tlast.op = "acquire" /\ pc = "ready") =>
           \A j \in 1..Len(Objs) : Objs[j].t_history = <<0>>
    /\ (Stepped /\ tlast.err = "ok" /\ SameTimeColumn(tpre)) =>
           /\ SameTimeColumn(trk)
           /\ Last(Objs[1].t_history) = tlast.t

C32_MixedBoundedStep ==
    /\ Stepped /\ tlast.err = "ok" /\ nsteps = 2
    /\ tlast.ids # {} /\ tlast.ids # Ids(trk)
    /\ trk.history_len = 1
    /\ Objs[1].t_history # tpre.tracking_objects[1].t_history

\* C33: the theta of every detected frame is congruent modulo 2*pi to the
\* raw heading of the frame, an update moves theta by the wrapped difference
\* and does not bring it back into a fixed range, a miss leaves it, and the
\* theta produced by init_detection lies in [-pi, pi).
C33_ThetaUnwrapped ==
    /\ PoseComputed => RMod(X(obj)[3], TwoPi) = RawHeading(last.det)
    /\ (PoseComputed /\ Called("add_timestep")) =>
           (RLeq(R(-Pi), Dtheta) /\ RLt(Dtheta, R(Pi)))
    /\ MissedUpdate => X(obj)[3] = X(pre)[3]
    /\ (Called("init_detection") /\ Succeeded) =>
           (RLeq(R(-Pi), X(obj)[3]) /\ RLt(X(obj)[3], R(Pi)))

C37_LegacyGapClosed ==
    (Called("Detection.add_timestep") /\ last.det # None /\ Succeeded
         /\ pre.object_detected /\ pre.missed_frames > 0) =>
        /\ obj.missed_frames = 0
        /\ LET n == Len(pre.history)
               k == pre.missed_frames
           IN  (k = 1 /\ n >= 2 /\ (pre.maxlen = NoLen \/ n < pre.maxlen)) =>
                   obj.history[n] =
                       Interpolate(pre.history[n - 1], pre.t_history[n - 1],
                                   obj.x, obj.t, pre.t_history[n])

\* the objects whose add_timestep ran in the last step
UpdatedInStep == {j \in 1..Len(Objs) : Objs[j].t = tlast.t}

====
